---- MODULE Spec2Model ----
(***************************************************************************)
(* A model of the ReAct agent (src/agent.py) and of its textual            *)
(* function-call parser (src/response_parser.py).                          *)
(*                                                                         *)
(* Text is a sequence of tokens.  The four grammar delimiters are atomic   *)
(* tokens, whitespace is the token WS or NL, and every other token stands  *)
(* for a run of characters that contains no dash and no whitespace.        *)
(* Python's 0-based positions become 1-based positions; "not found" (-1)   *)
(* becomes 0.                                                              *)
(***************************************************************************)
EXTENDS Integers, Sequences, FiniteSets, TLC

\* ------------------------------------------------------------------------
\* response_parser.py: the grammar delimiters
\* ------------------------------------------------------------------------
BEGIN_CALL == "----BEGIN_FUNCTION_CALL----"
END_CALL == "----END_FUNCTION_CALL----"
ARG_SEP == "----ARG----"
VALUE_SEP == "----VALUE----"

WS == " "
NL == "\n"
Whitespace == {WS, NL}

\* ------------------------------------------------------------------------
\* Python str primitives on token sequences
\* ------------------------------------------------------------------------
\* marker in text
Contains(text, marker) == \E i \in 1..Len(text) : text[i] = marker

\* text.find(marker): the first position of marker, 0 when absent
Find(text, marker) ==
  IF Contains(text, marker)
  THEN CHOOSE i \in 1..Len(text) :
         /\ text[i] = marker
         /\ \A j \in 1..(i - 1) : text[j] # marker
  ELSE 0

\* a variant of RFind: find instead of rfind, the first position
RFind_First(text, marker, last) ==
  IF \E i \in 1..last : text[i] = marker
  THEN CHOOSE i \in 1..last :
         /\ text[i] = marker
         /\ \A j \in 1..(i - 1) : text[j] # marker
  ELSE 0

\* text.rfind(marker, 0, end): the last position of marker among the first
\* `last` tokens, 0 when absent
RFind(text, marker, last) ==
  IF \E i \in 1..last : text[i] = marker
  THEN CHOOSE i \in 1..last :
         /\ text[i] = marker
         /\ \A j \in (i + 1)..last : text[j] # marker
  ELSE 0

RECURSIVE LStrip(_)
LStrip(text) ==
  IF text # <<>> /\ Head(text) \in Whitespace THEN LStrip(Tail(text)) ELSE text

RECURSIVE RStrip(_)
RStrip(text) ==
  IF text # <<>> /\ text[Len(text)] \in Whitespace
  THEN RStrip(SubSeq(text, 1, Len(text) - 1))
  ELSE text

Strip(text) == LStrip(RStrip(text))

\* text.split(sep): the pieces between the occurrences of sep
RECURSIVE Split(_, _)
Split(text, sep) ==
  LET i == Find(text, sep)
  IN IF i = 0
     THEN <<text>>
     ELSE <<SubSeq(text, 1, i - 1)>> \o Split(SubSeq(text, i + 1, Len(text)), sep)

\* text.split(sep, 1): the text before and after the first occurrence of sep
SplitOnce(text, sep) ==
  LET i == Find(text, sep)
  IN IF i = 0
     THEN <<text>>
     ELSE <<SubSeq(text, 1, i - 1), SubSeq(text, i + 1, Len(text))>>

\* ------------------------------------------------------------------------
\* A Python dict with str keys: a sequence of <<key, value>> pairs in
\* insertion order, each key once
\* ------------------------------------------------------------------------
DictHas(d, k) == \E i \in 1..Len(d) : d[i][1] = k

DictGet(d, k) == d[CHOOSE i \in 1..Len(d) : d[i][1] = k][2]

DictKeys(d) == {d[i][1] : i \in 1..Len(d)}

DictValues(d) == {d[i][2] : i \in 1..Len(d)}

\* a variant of DictSet: a known key keeps its value
DictSet_KeepFirst(d, k, v) ==
  IF DictHas(d, k) THEN d ELSE Append(d, <<k, v>>)

\* d[k] = v: a known key keeps its position, a new key goes last
DictSet(d, k, v) ==
  IF DictHas(d, k)
  THEN [i \in 1..Len(d) |-> IF d[i][1] = k THEN <<k, v>> ELSE d[i]]
  ELSE Append(d, <<k, v>>)

\* ------------------------------------------------------------------------
\* response_parser.py: ResponseParser.parse
\* ------------------------------------------------------------------------
ParseFailure(message) ==
  [error |-> message, thought |-> <<>>, name |-> <<>>, arguments |-> <<>>]

\* a variant of ParseSections: a section without VALUE is skipped
RECURSIVE ParseSections_SkipUnseparated(_, _)
ParseSections_SkipUnseparated(sections, arguments) ==
  IF sections = <<>>
  THEN [error |-> "", arguments |-> arguments]
  ELSE LET section == Head(sections)
       IN IF Strip(section) = <<>> \/ ~Contains(section, VALUE_SEP)
          THEN ParseSections_SkipUnseparated(Tail(sections), arguments)
          ELSE LET parts == SplitOnce(section, VALUE_SEP)
                   arg_name == Strip(parts[1])
                   arg_value == Strip(parts[2])
               IN IF arg_name = <<>>
                  THEN [error |-> "Argument name is empty.", arguments |-> <<>>]
                  ELSE ParseSections_SkipUnseparated(Tail(sections),
                                     DictSet(arguments, arg_name, arg_value))

\* the for loop over sections[1:], arguments being the dict built so far
RECURSIVE ParseSections(_, _)
ParseSections(sections, arguments) ==
  IF sections = <<>>
  THEN [error |-> "", arguments |-> arguments]
  ELSE LET section == Head(sections)
       IN IF Strip(section) = <<>>
          THEN ParseSections(Tail(sections), arguments)
          ELSE IF ~Contains(section, VALUE_SEP)
          THEN [error |-> "Argument missing VALUE separator.", arguments |-> <<>>]
          ELSE LET parts == SplitOnce(section, VALUE_SEP)
                   arg_name == Strip(parts[1])
                   arg_value == Strip(parts[2])
               IN IF arg_name = <<>>
                  THEN [error |-> "Argument name is empty.", arguments |-> <<>>]
                  ELSE ParseSections(Tail(sections),
                                     DictSet(arguments, arg_name, arg_value))

\* parse(text): error = "" and the call on success, the ValueError's message
\* otherwise
Parse(text) ==
  LET end_idx == RFind(text, END_CALL, Len(text))
  IN IF end_idx = 0
     THEN ParseFailure("Missing END_FUNCTION_CALL marker.")
     ELSE
     LET begin_idx == RFind(text, BEGIN_CALL, end_idx - 1)
     IN IF begin_idx = 0
        THEN ParseFailure("Missing BEGIN_FUNCTION_CALL marker.")
        ELSE
        LET thought == Strip(SubSeq(text, 1, begin_idx - 1))
            call_block == Strip(SubSeq(text, begin_idx + 1, end_idx - 1))
        IN IF call_block = <<>>
           THEN ParseFailure("Empty function call block.")
           ELSE
           LET sections == Split(call_block, ARG_SEP)
               function_name == Strip(sections[1])
           IN IF function_name = <<>>
              THEN ParseFailure("Function name is missing.")
              ELSE
              LET rest == ParseSections(Tail(sections), <<>>)
              IN IF rest.error # ""
                 THEN ParseFailure(rest.error)
                 ELSE [error |-> "", thought |-> thought,
                       name |-> function_name, arguments |-> rest.arguments]

\* ------------------------------------------------------------------------
\* Bounds of the model
\* ------------------------------------------------------------------------
\* the largest step budget handed to a run whose model is scripted
MaxStepsArg == 2
\* the number of add_message / set_message_content calls made before run
MaxStoreOps == 1
\* the length of the texts handed to parse that are enumerated in full
MaxTextLen == 4
\* the length of the call blocks handed to parse that are enumerated in full
MaxBlockLen == 4
\* the number of arguments of the calls rendered into the grammar
MaxArgs == 2
\* the largest window handed to a direct call of get_context
MaxWindow == 3
\* the number of callables a caller registers when registrations are logged
MaxRegistered == 3

\* ------------------------------------------------------------------------
\* agent.py: the state of a ReactAgent and of its run
\* ------------------------------------------------------------------------
VARIABLES
  id_to_message,     \* self.id_to_message: records role, content, unique_id
  next_message_id,   \* self._next_message_id
  function_map,      \* self.function_map: dict, tool name -> callable
  pc,                \* where run is: idle, iterating, returned,
                     \* value_error, limits_exceeded
  llm,               \* self.llm: the model collaborator
  max_steps_arg,     \* run's argument max_steps as the caller passed it
  max_steps,         \* run's local max_steps (after line 176)
  step,              \* the iterations of the for loop completed so far
  finish_attempts,   \* run's local finish_attempts
  iteration,         \* the locals of the most recent iteration
  llm_calls,         \* the number of self.llm.generate calls made
  tool_calls,        \* the tool invocations made, in order
  store_ops,         \* the number of direct store calls made before run
  len_at_run,        \* len(self.id_to_message) when run was called
  returned,          \* the value run returned
  text,              \* the argument of a direct call of parser.parse
  parse_result,      \* what that call returned or raised
  llm_messages,      \* run's local llm_messages: the most recent model request
  rendered,          \* the call that text was rendered from, if it was
  registered,        \* the callables registered so far, when they are logged
  direct_call,       \* a caller's direct call of a rendering method
  direct_result      \* what that call returned

vars == <<id_to_message, next_message_id, function_map, pc, llm,
          max_steps_arg, max_steps, step, finish_attempts, iteration,
          llm_calls, tool_calls, store_ops, len_at_run, returned,
          text, parse_result, llm_messages, rendered, registered,
          direct_call, direct_result>>

\* the variables of the direct parser call
parser_vars == <<text, parse_result, rendered>>

\* the variables of a direct call of a rendering method
inspect_vars == <<direct_call, direct_result>>

\* the clamp of line 176
MAX_STEPS_LIMIT == 100

\* a variant of ClampSteps: the budget is not clamped
ClampSteps_NoLimit(n) == n

\* min(max_steps, 100)
ClampSteps(n) == IF n < MAX_STEPS_LIMIT THEN n ELSE MAX_STEPS_LIMIT

\* a variant of BudgetLeft: the loop runs once more than the budget
BudgetLeft_OffByOne(done, budget) == done <= budget

\* for step in range(max_steps): another iteration is due
BudgetLeft(done, budget) == done < budget

\* ------------------------------------------------------------------------
\* The callables: name is __name__, func the underlying function, obj the
\* identity of the object (two bound methods of the same function and the
\* same instance are equal, yet different objects)
\* ------------------------------------------------------------------------
\* the bound method self.finish that __init__ registers (line 76)
FinishMethod == [name |-> <<"finish">>, func |-> "ReactAgent.finish", obj |-> 0]
\* env.run_bash_cmd, as main registers it (line 335)
RunBashCmd == [name |-> <<"run_bash_cmd">>, func |-> "run_bash_cmd", obj |-> 1]
\* a caller's own callable named finish, re-registered over the built-in one
UserFinish == [name |-> <<"finish">>, func |-> "user_finish", obj |-> 2]
\* a candidate that is not callable
NotCallable == [name |-> <<"not_callable">>, func |-> "", obj |-> 3]

Candidates == {RunBashCmd, UserFinish, NotCallable}

\* a caller's own callable named run_bash_cmd
UserBash == [name |-> <<"run_bash_cmd">>, func |-> "user_bash", obj |-> 5]

\* callable(tool)
Callable(tool) == tool.func # ""

\* the expression self.finish: every evaluation binds a new method object,
\* different from every object alive
SelfFinish == [FinishMethod EXCEPT !.obj = 4]

\* the parameter names of inspect.signature(tool)
Signature(tool) ==
  IF tool.func = "run_bash_cmd" THEN {<<"command">>} ELSE {<<"result">>}

\* what an external tool does when it is called: raise, or return output
ToolOutputs == {<<"out">>}
ToolBehaviours ==
  {[raises |-> TRUE, output |-> <<>>]}
    \cup {[raises |-> FALSE, output |-> o] : o \in ToolOutputs}

\* tool(**arguments): a TypeError when the keywords do not match the
\* parameters; finish returns its argument (line 153), run_bash_cmd behaves
\* as the environment decides
CallTool(tool, arguments, behaviour) ==
  IF DictKeys(arguments) # Signature(tool)
  THEN [raised |-> TRUE, value |-> <<"TypeError: unexpected keyword argument">>]
  ELSE IF tool.func = "run_bash_cmd"
  THEN IF behaviour.raises
       THEN [raised |-> TRUE, value |-> <<"RuntimeError: command failed">>]
       ELSE [raised |-> FALSE, value |-> behaviour.output]
  ELSE [raised |-> FALSE, value |-> DictGet(arguments, <<"result">>)]

\* ------------------------------------------------------------------------
\* agent.py: the message list
\* ------------------------------------------------------------------------
\* a variant of add_message: _next_message_id is not advanced
add_message_SameId(store, role, content) ==
  [messages |-> Append(store.messages,
                       [role |-> role, content |-> content,
                        unique_id |-> store.next_id]),
   next_id |-> store.next_id]

\* add_message on the pair (id_to_message, _next_message_id)
add_message(store, role, content) ==
  [messages |-> Append(store.messages,
                       [role |-> role, content |-> content,
                        unique_id |-> store.next_id]),
   next_id |-> store.next_id + 1]

\* add_message for each <<role, content>> of items, in order
RECURSIVE add_messages(_, _)
add_messages(store, items) ==
  IF items = <<>>
  THEN store
  ELSE add_messages(add_message(store, Head(items)[1], Head(items)[2]),
                    Tail(items))

\* set_message_content: IndexError (nothing changes) when out of range
set_message_content(messages, message_id, content) ==
  IF ~(0 <= message_id /\ message_id < Len(messages))
  THEN messages
  ELSE [messages EXCEPT ![message_id + 1].content = content]

\* ------------------------------------------------------------------------
\* agent.py: add_functions
\* ------------------------------------------------------------------------
\* a variant of add_functions: a name already registered keeps its callable
RECURSIVE add_functions_KeepFirst(_, _)
add_functions_KeepFirst(fmap, tools) ==
  IF tools = <<>>
  THEN fmap
  ELSE IF ~Callable(Head(tools))
  THEN fmap
  ELSE add_functions_KeepFirst(DictSet_KeepFirst(fmap, Head(tools).name, Head(tools)),
                               Tail(tools))

\* the loop of add_functions: it stops at the first tool that is not
\* callable (ValueError), the tools before it stay registered
RECURSIVE add_functions(_, _)
add_functions(fmap, tools) ==
  IF tools = <<>>
  THEN fmap
  ELSE IF ~Callable(Head(tools))
  THEN fmap
  ELSE add_functions(DictSet(fmap, Head(tools).name, Head(tools)), Tail(tools))

\* ------------------------------------------------------------------------
\* agent.py: _sanitize_arguments and the pollution check of run
\* ------------------------------------------------------------------------
\* a variant of Markers: the VALUE separator is scanned before the END marker
Markers_ValueFirst == <<BEGIN_CALL, VALUE_SEP, ARG_SEP, END_CALL>>

\* the tuple `markers`, in the order the code scans it
Markers == <<BEGIN_CALL, END_CALL, ARG_SEP, VALUE_SEP>>

\* the inner loop of _sanitize_arguments: the first marker of the tuple that
\* occurs in v cuts v at its first occurrence; then break
SanitizeValue(v) ==
  IF \E m \in 1..Len(Markers) : Contains(v, Markers[m])
  THEN LET m == CHOOSE n \in 1..Len(Markers) :
                  /\ Contains(v, Markers[n])
                  /\ \A o \in 1..(n - 1) : ~Contains(v, Markers[o])
       IN RStrip(SplitOnce(v, Markers[m])[1])
  ELSE v

sanitize_arguments(arguments) ==
  [i \in 1..Len(arguments) |-> <<arguments[i][1], SanitizeValue(arguments[i][2])>>]

\* a variant of Polluted: only the BEGIN and END markers are looked for
Polluted_CallMarkersOnly(arguments) ==
  \E val \in DictValues(arguments) :
    Contains(val, BEGIN_CALL) \/ Contains(val, END_CALL)

\* lines 224-230: some value contains some marker
Polluted(arguments) ==
  \E val \in DictValues(arguments) :
    \E m \in 1..Len(Markers) : Contains(val, Markers[m])

\* a variant of ToolIsSelfFinish: the methods are compared with ==, which
\* holds for two bound methods of the same function and the same instance
ToolIsSelfFinish_Equality(tool) == tool.func = SelfFinish.func

\* line 261: tool is self.finish, an identity test against the method object
\* that the evaluation of self.finish has just created
ToolIsSelfFinish(tool) == tool.obj = SelfFinish.obj

\* ------------------------------------------------------------------------
\* agent.py: the texts run puts in the store
\* ------------------------------------------------------------------------
SystemPrompt == <<"system_prompt">>

ParserErrorMessage(parse_error) ==
  <<"ParserError: ", parse_error, ". You must ALWAYS end with a valid function call", "response_format">>

\* ', '.join(self.function_map.keys())
RECURSIVE JoinKeys(_)
JoinKeys(fmap) ==
  IF fmap = <<>>
  THEN <<>>
  ELSE Head(fmap)[1] \o (IF Len(fmap) > 1 THEN <<", ">> ELSE <<>>) \o JoinKeys(Tail(fmap))

NotRegisteredMessage(function_name, fmap) ==
  <<"Tool '">> \o function_name \o <<"' is not registered. Valid tools: ">>
    \o JoinKeys(fmap) \o <<". Retry with a valid tool and arguments.">>

PollutedMessage == <<"Argument values contained function-call markers">>

ToolFailedMessage(function_name, tool_result) ==
  <<"Tool '">> \o function_name \o <<"' failed: ">> \o tool_result
    \o <<". Retry with corrected arguments that match the signature.">>

EmptyFinishMessage == <<"finish returned an empty result.">>

DuplicateFinishMessage == <<"Duplicate finish detected earlier.">>

\* the text of a dict, f"{arguments}"
RECURSIVE DictText(_)
DictText(d) ==
  IF d = <<>>
  THEN <<>>
  ELSE Head(d)[1] \o <<": ">> \o Head(d)[2]
         \o (IF Len(d) > 1 THEN <<", ">> ELSE <<>>) \o DictText(Tail(d))

\* lines 255-258
ToolMessageContent(function_name, arguments, tool_result) ==
  function_name \o <<"(args={">> \o DictText(arguments) \o <<"})", NL, "----RESULT----", NL>>
    \o tool_result

\* ------------------------------------------------------------------------
\* agent.py: one iteration of the loop of run (lines 189-274), given the
\* text the model returned and what an external tool does when called
\* ------------------------------------------------------------------------
LoopBody(fmap, attempts, response, behaviour) ==
  LET parsed == Parse(response)
      assistant == <<"assistant", response>>
      locals == [outcome |-> "", response |-> response, parsed |-> parsed,
                 arguments |-> <<>>, invoked |-> FALSE, raised |-> FALSE,
                 tool_result |-> <<>>, appended |-> <<>>,
                 finish_attempts |-> attempts, returns |-> FALSE]
  IN IF parsed.error # ""
     THEN [locals EXCEPT !.outcome = "parse_error",
                         !.appended = <<assistant,
                                        <<"system", ParserErrorMessage(parsed.error)>>>>]
     ELSE
     LET function_name == parsed.name
         arguments == sanitize_arguments(parsed.arguments)
     IN IF ~DictHas(fmap, function_name)
        THEN [locals EXCEPT !.outcome = "unknown_tool",
                            !.arguments = arguments,
                            !.appended = <<assistant,
                                           <<"system", NotRegisteredMessage(function_name, fmap)>>>>]
        ELSE IF Polluted(arguments)
        THEN [locals EXCEPT !.outcome = "polluted",
                            !.arguments = arguments,
                            !.appended = <<assistant, <<"system", PollutedMessage>>>>]
        ELSE
        LET tool == DictGet(fmap, function_name)
            call == CallTool(tool, arguments, behaviour)
            tool_result == call.value
            failure == IF call.raised
                       THEN <<<<"system", ToolFailedMessage(function_name, tool_result)>>>>
                       ELSE <<>>
            recorded == <<assistant>> \o failure
                          \o <<<<"tool", ToolMessageContent(function_name, arguments, tool_result)>>>>
            called == [locals EXCEPT !.arguments = arguments, !.invoked = TRUE,
                                     !.raised = call.raised,
                                     !.tool_result = tool_result]
        IN IF ToolIsSelfFinish(tool)
           THEN IF Strip(tool_result) = <<>>
                THEN [called EXCEPT !.outcome = "finish_empty",
                                    !.finish_attempts = attempts + 1,
                                    !.appended = recorded \o <<<<"system", EmptyFinishMessage>>>>]
                ELSE [called EXCEPT !.outcome = "finish",
                                    !.finish_attempts = attempts + 1,
                                    !.returns = TRUE,
                                    !.appended =
                                      recorded \o (IF attempts + 1 > 1
                                                   THEN <<<<"system", DuplicateFinishMessage>>>>
                                                   ELSE <<>>)]
           ELSE [called EXCEPT !.outcome = "tool", !.appended = recorded]

\* ------------------------------------------------------------------------
\* agent.py: message_id_to_context and get_context
\* ------------------------------------------------------------------------
\* self.system_message_id, self.user_message_id (lines 73-74)
SYSTEM_MESSAGE_ID == 0
USER_MESSAGE_ID == 1

\* max_len, and the lengths of head and tail (lines 306-309)
TRUNCATE_OVER == 2048
HEAD_LENGTH == 1024
TAIL_LENGTH == 512

\* the default of get_context's window (line 107)
DEFAULT_WINDOW == 30

\* "\n".join(pieces)
RECURSIVE JoinLines(_)
JoinLines(pieces) ==
  IF pieces = <<>>
  THEN <<>>
  ELSE IF Len(pieces) = 1
  THEN Head(pieces)
  ELSE Head(pieces) \o <<NL>> \o JoinLines(Tail(pieces))

\* line 300
Header(message) ==
  <<"----------------------------", NL, "|MESSAGE(role=\"", message.role,
    "\", id=", ToString(message.unique_id), ")|", NL>>

\* a variant of Truncated: a content of TRUNCATE_OVER characters is cut too
Truncated_AtThreshold(content) ==
  IF Len(content) >= TRUNCATE_OVER
  THEN LET head == SubSeq(content, 1, HEAD_LENGTH)
           tail == SubSeq(content, Len(content) - TAIL_LENGTH + 1, Len(content))
       IN head \o <<NL, "... [TRUNCATED ",
                    ToString(Len(content) - (Len(head) + Len(tail))),
                    " CHARS] ...", NL>> \o tail
  ELSE content

\* lines 307-310: the content of a tool message that is not the last one
Truncated(content) ==
  IF Len(content) > TRUNCATE_OVER
  THEN LET head == SubSeq(content, 1, HEAD_LENGTH)
           tail == SubSeq(content, Len(content) - TAIL_LENGTH + 1, Len(content))
       IN head \o <<NL, "... [TRUNCATED ",
                    ToString(Len(content) - (Len(head) + Len(tail))),
                    " CHARS] ...", NL>> \o tail
  ELSE content

\* line 316: one tool's description
ToolDescription(tool) ==
  <<"Function: ">> \o tool.name \o <<"(">>
    \o (CHOOSE p \in Signature(tool) : TRUE) \o <<")", NL, "__doc__ of ", tool.func, NL>>

\* lines 312-319
ToolDescriptions(fmap) ==
  JoinLines([i \in 1..Len(fmap) |-> ToolDescription(fmap[i][2])])

\* line 311: message["role"] == "system"
IsSystemEntry(messages, message_id) == messages[message_id + 1].role = "system"

\* lines 302-305: a tool message that is not the last message of the store
IsOlderTool(messages, message_id) ==
  /\ messages[message_id + 1].role = "tool"
  /\ message_id # Len(messages) - 1

\* message_id_to_context(message_id), on the store and the registry
message_id_to_context(messages, fmap, message_id) ==
  LET message == messages[message_id + 1]
      header == Header(message)
      content == IF IsOlderTool(messages, message_id)
                 THEN Truncated(message.content)
                 ELSE message.content
  IN IF IsSystemEntry(messages, message_id)
     THEN header \o content
            \o <<NL, "--- AVAILABLE TOOLS ---", NL>> \o ToolDescriptions(fmap)
            \o <<NL, NL, "--- RESPONSE FORMAT ---", NL, "response_format", NL>>
     ELSE header \o content \o <<NL>>

\* a variant of TailStart: max(1, total - window)
TailStart_FromOne(total, window) == IF total - window > 1 THEN total - window ELSE 1

\* line 117: max(2, total - window)
TailStart(total, window) == IF total - window > 2 THEN total - window ELSE 2

\* lines 113-121: the indices get_context renders, in order
ContextIndices(total, window, include_system) ==
  LET tail_start == TailStart(total, window)
      indices == IF total <= 2
                 THEN [i \in 1..total |-> i - 1]
                 ELSE <<0, 1>> \o [k \in 1..(total - tail_start) |-> tail_start + k - 1]
      kept(idx) == include_system \/ idx # SYSTEM_MESSAGE_ID
  IN SelectSeq(indices, kept)

\* get_context(window, include_system)
get_context(messages, fmap, window, include_system) ==
  LET indices == ContextIndices(Len(messages), window, include_system)
  IN JoinLines([k \in 1..Len(indices) |->
                  message_id_to_context(messages, fmap, indices[k])])

\* lines 183-188: the request run sends to the model
BuildRequest(messages, fmap) ==
  <<[role |-> "system",
     content |-> message_id_to_context(messages, fmap, SYSTEM_MESSAGE_ID)],
    [role |-> "user",
     content |-> get_context(messages, fmap, DEFAULT_WINDOW, FALSE)]>>

\* ------------------------------------------------------------------------
\* response_parser.py: the canonical template (response_format), filled in
\* ------------------------------------------------------------------------
RECURSIVE ArgumentsText(_)
ArgumentsText(arguments) ==
  IF arguments = <<>>
  THEN <<>>
  ELSE <<ARG_SEP, NL>> \o Head(arguments)[1] \o <<NL, VALUE_SEP, NL>>
         \o Head(arguments)[2] \o <<NL>> \o ArgumentsText(Tail(arguments))

\* a complete call block, from its BEGIN marker to its END marker
CallBlock(name, arguments) ==
  <<BEGIN_CALL, NL>> \o name \o <<NL>> \o ArgumentsText(arguments) \o <<END_CALL>>

CallText(thought, name, arguments) ==
  thought \o <<NL>> \o CallBlock(name, arguments) \o <<NL>>

\* ------------------------------------------------------------------------
\* The collaborators of a run: the model (self.llm) and the caller
\* ------------------------------------------------------------------------
\* a text no call can be parsed from
Gibberish == <<"I", WS, "am", WS, "thinking">>

\* the texts a scripted model may return at any step
Responses ==
  { Gibberish,
    CallText(<<"t">>, <<"finish">>, <<<<<<"result">>, <<"done">>>>>>),
    CallText(<<"t">>, <<"finish">>, <<<<<<"result">>, <<>>>>>>),
    CallText(<<"t">>, <<"finish">>, <<<<<<"bogus">>, <<"x">>>>>>),
    CallText(<<"t">>, <<"run_bash_cmd">>, <<<<<<"command">>, <<"ls">>>>>>),
    CallText(<<"t">>, <<"no_such_tool">>, <<>>),
    CallText(<<"t">>, <<"finish">>,
             <<<<<<"result">>, <<"done", WS, END_CALL, WS, "x">>>>>>),
    CallText(<<"t">>, <<"finish">>,
             <<<<<<"result">>, <<"a", WS, VALUE_SEP, WS, "b", WS, END_CALL, WS, "c">>>>>>),
    CallText(<<"t">>, <<"run_bash_cmd">>,
             <<<<<<"command">>, <<"ls", WS, VALUE_SEP, WS, "x">>>>>>) }

\* the call the narrow model makes
NarrowCall == [name |-> <<"run_bash_cmd">>, arguments |-> <<<<<<"command">>, <<"ls">>>>>>]

\* self.llm.generate: a scripted model returns any of Responses, a babbling
\* model the same unparsable text every time, a narrow model either that
\* text or a call of run_bash_cmd, a terse model that text or one of two
\* calls
Generate(model) ==
  IF model = "babbling"
  THEN {Gibberish}
  ELSE IF model = "narrow"
  THEN {Gibberish, CallText(<<"t">>, NarrowCall.name, NarrowCall.arguments)}
  ELSE IF model = "terse"
  THEN {Gibberish,
        CallText(<<"t">>, <<"finish">>, <<<<<<"result">>, <<"done">>>>>>),
        CallText(<<"t">>, <<"run_bash_cmd">>, <<<<<<"result">>, <<"r">>>>>>)}
  ELSE Responses

\* an output of n characters, each told apart by its position
Filler(n) == [i \in 1..n |-> ToString(i)]

\* long outputs of the command: one that makes a tool message of exactly
\* TRUNCATE_OVER characters, one that is itself longer than that
LongOutputs ==
  {Filler(TRUNCATE_OVER
            - Len(ToolMessageContent(NarrowCall.name, NarrowCall.arguments, <<>>))),
   Filler(TRUNCATE_OVER + 1)}

\* what the environment's tools do: with the narrow model the command
\* prints a long output
BehavioursWith(model) ==
  IF model = "narrow"
  THEN {[raises |-> FALSE, output |-> o] : o \in LongOutputs}
  ELSE ToolBehaviours

\* the step budgets the caller passes: small ones, valid or not, to a run
\* with a scripted model; budgets around the limit to a babbling one; an
\* invalid one or one more than the small ones to a narrow one; the largest
\* small one to a terse one
StepBudgets(model) ==
  IF model = "babbling"
  THEN (MAX_STEPS_LIMIT - 1)..(MAX_STEPS_LIMIT + 1)
  ELSE IF model = "narrow"
  THEN {0, MaxStepsArg + 1}
  ELSE IF model = "terse"
  THEN {MaxStepsArg}
  ELSE (-1)..MaxStepsArg

Tasks == {<<WS, "fix", WS, "it", NL>>}

Roles == {"system", "user", "assistant", "tool"}

Contents == {<<"x">>}

\* the lists of tools a caller registers
ToolLists ==
  {<<>>} \cup {<<t>> : t \in Candidates}
         \cup {<<t, u>> : t \in Candidates, u \in Candidates}

NoIteration ==
  [outcome |-> "none", response |-> <<>>, parsed |-> ParseFailure(""),
   arguments |-> <<>>, invoked |-> FALSE, raised |-> FALSE,
   tool_result |-> <<>>, first |-> 0]

\* no direct parser call has been made
NotParsed == ParseFailure("not called")

\* the text was not rendered from a call
NoCall == [name |-> <<>>, arguments |-> <<>>, thought |-> <<"not rendered">>]

\* no direct call of a rendering method has been made
NoDirectCall == [method |-> "none", window |-> 0, include_system |-> FALSE, message_id |-> 0]

\* ------------------------------------------------------------------------
\* The state after ReactAgent.__init__ (lines 31-76)
\* ------------------------------------------------------------------------
InitAgent ==
  /\ id_to_message = <<[role |-> "system", content |-> SystemPrompt, unique_id |-> 0],
                       [role |-> "user", content |-> <<>>, unique_id |-> 1]>>
  /\ next_message_id = 2
  /\ function_map = <<<<FinishMethod.name, FinishMethod>>>>
  /\ pc = "idle"
  /\ max_steps_arg = 0
  /\ max_steps = 0
  /\ step = 0
  /\ finish_attempts = 0
  /\ iteration = NoIteration
  /\ llm_calls = 0
  /\ tool_calls = <<>>
  /\ store_ops = 0
  /\ len_at_run = 0
  /\ returned = <<>>
  /\ llm_messages = <<>>
  /\ registered = <<>>

\* no direct call is made
Untouched ==
  /\ text = <<>>
  /\ parse_result = NotParsed
  /\ rendered = NoCall
  /\ direct_call = NoDirectCall
  /\ direct_result = <<>>

Init ==
  /\ InitAgent
  /\ llm \in {"scripted", "babbling", "narrow"}
  /\ Untouched

\* ------------------------------------------------------------------------
\* The operations
\* ------------------------------------------------------------------------
\* a caller's add_message(role, content)
AddMessage(role, content) ==
  /\ pc = "idle"
  /\ store_ops < MaxStoreOps
  /\ LET store == add_message([messages |-> id_to_message, next_id |-> next_message_id],
                              role, content)
     IN /\ id_to_message' = store.messages
        /\ next_message_id' = store.next_id
  /\ store_ops' = store_ops + 1
  /\ UNCHANGED <<function_map, pc, llm, max_steps_arg, max_steps, step,
                 finish_attempts, iteration, llm_calls, tool_calls, len_at_run,
                 returned, parser_vars,
                 llm_messages, inspect_vars, registered>>

\* a caller's set_message_content(message_id, content)
SetMessageContent(message_id, content) ==
  /\ pc = "idle"
  /\ store_ops < MaxStoreOps
  /\ id_to_message' = set_message_content(id_to_message, message_id, content)
  /\ store_ops' = store_ops + 1
  /\ UNCHANGED <<next_message_id, function_map, pc, llm, max_steps_arg, max_steps,
                 step, finish_attempts, iteration, llm_calls, tool_calls, len_at_run,
                 returned, parser_vars,
                 llm_messages, inspect_vars, registered>>

\* a caller's add_functions(tools)
AddFunctions(tools) ==
  /\ pc = "idle"
  /\ function_map' = add_functions(function_map, tools)
  /\ UNCHANGED <<id_to_message, next_message_id, pc, llm, max_steps_arg, max_steps,
                 step, finish_attempts, iteration, llm_calls, tool_calls, store_ops,
                 len_at_run, returned, parser_vars,
                 llm_messages, inspect_vars, registered>>

\* a variant of Run: the task is written before the budget is validated
Run_WriteFirst(task, n) ==
  /\ pc = "idle"
  /\ max_steps_arg' = n
  /\ len_at_run' = Len(id_to_message)
  /\ id_to_message' = set_message_content(id_to_message, USER_MESSAGE_ID, Strip(task))
  /\ IF n <= 0
     THEN /\ pc' = "value_error"
          /\ UNCHANGED max_steps
     ELSE /\ pc' = "iterating"
          /\ max_steps' = ClampSteps(n)
  /\ UNCHANGED <<next_message_id, function_map, llm, step, finish_attempts,
                 iteration, llm_calls, tool_calls, store_ops, returned, parser_vars,
                 llm_messages, inspect_vars, registered>>

\* run(task, n) up to the loop (lines 174-180)
Run(task, n) ==
  /\ pc = "idle"
  /\ max_steps_arg' = n
  /\ len_at_run' = Len(id_to_message)
  /\ IF n <= 0
     THEN /\ pc' = "value_error"
          /\ UNCHANGED <<id_to_message, max_steps>>
     ELSE /\ pc' = "iterating"
          /\ max_steps' = ClampSteps(n)
          /\ id_to_message' = set_message_content(id_to_message, USER_MESSAGE_ID, Strip(task))
  /\ UNCHANGED <<next_message_id, function_map, llm, step, finish_attempts,
                 iteration, llm_calls, tool_calls, store_ops, returned, parser_vars,
                 llm_messages, inspect_vars, registered>>

\* one iteration of the loop (lines 182-274)
Iteration(response, behaviour) ==
  /\ pc = "iterating"
  /\ BudgetLeft(step, max_steps)
  /\ \E body \in {LoopBody(function_map, finish_attempts, response, behaviour)} :
     LET store == add_messages([messages |-> id_to_message, next_id |-> next_message_id],
                               body.appended)
     IN /\ llm_messages' = BuildRequest(id_to_message, function_map)
        /\ llm_calls' = llm_calls + 1
        /\ id_to_message' = store.messages
        /\ next_message_id' = store.next_id
        /\ finish_attempts' = body.finish_attempts
        /\ iteration' = [outcome |-> body.outcome, response |-> body.response,
                         parsed |-> body.parsed, arguments |-> body.arguments,
                         invoked |-> body.invoked, raised |-> body.raised,
                         tool_result |-> body.tool_result,
                         first |-> Len(id_to_message) + 1]
        /\ tool_calls' = IF body.invoked
                         THEN Append(tool_calls,
                                     [tool |-> DictGet(function_map, body.parsed.name),
                                      arguments |-> body.arguments,
                                      raised |-> body.raised])
                         ELSE tool_calls
        /\ step' = step + 1
        /\ IF body.returns
           THEN pc' = "returned" /\ returned' = body.tool_result
           ELSE pc' = "iterating" /\ UNCHANGED returned
  /\ UNCHANGED <<function_map, llm, max_steps_arg, max_steps, store_ops, len_at_run,
                 parser_vars,
                 inspect_vars, registered>>

\* the loop is over: raise LimitsExceeded (line 276)
RaiseLimitsExceeded ==
  /\ pc = "iterating"
  /\ ~BudgetLeft(step, max_steps)
  /\ pc' = "limits_exceeded"
  /\ UNCHANGED <<id_to_message, next_message_id, function_map, llm, max_steps_arg,
                 max_steps, step, finish_attempts, iteration, llm_calls, tool_calls,
                 store_ops, len_at_run, returned, parser_vars,
                 llm_messages, inspect_vars, registered>>

Next ==
  \/ \E role \in Roles, content \in Contents : AddMessage(role, content)
  \/ \E message_id \in (-1)..Len(id_to_message), content \in Contents :
       SetMessageContent(message_id, content)
  \/ \E tools \in ToolLists : AddFunctions(tools)
  \/ \E task \in Tasks, n \in StepBudgets(llm) : Run(task, n)
  \/ \E response \in Generate(llm), behaviour \in BehavioursWith(llm) :
       Iteration(response, behaviour)
  \/ RaiseLimitsExceeded

Spec == Init /\ [][Next]_vars

\* ------------------------------------------------------------------------
\* A caller that inspects the agent once run has ended
\* ------------------------------------------------------------------------
Ended == pc \in {"value_error", "limits_exceeded", "returned"}

\* a caller's get_context(window, include_system)
GetContext(window, include_system) ==
  /\ Ended
  /\ direct_call = NoDirectCall
  /\ direct_call' = [method |-> "get_context", window |-> window,
                     include_system |-> include_system, message_id |-> 0]
  /\ direct_result' = get_context(id_to_message, function_map, window, include_system)
  /\ UNCHANGED <<id_to_message, next_message_id, function_map, pc, llm, max_steps_arg,
                 max_steps, step, finish_attempts, iteration, llm_calls, tool_calls,
                 store_ops, len_at_run, returned, parser_vars, llm_messages,
                 registered>>

\* a caller's message_id_to_context(message_id)
MessageIdToContext(message_id) ==
  /\ Ended
  /\ direct_call = NoDirectCall
  /\ direct_call' = [method |-> "message_id_to_context", window |-> 0,
                     include_system |-> FALSE, message_id |-> message_id]
  /\ direct_result' = message_id_to_context(id_to_message, function_map, message_id)
  /\ UNCHANGED <<id_to_message, next_message_id, function_map, pc, llm, max_steps_arg,
                 max_steps, step, finish_attempts, iteration, llm_calls, tool_calls,
                 store_ops, len_at_run, returned, parser_vars, llm_messages,
                 registered>>

\* the ids a caller inspects: the first and the last few of the store
InspectedIds ==
  {i \in 0..(Len(id_to_message) - 1) : i <= 2 * MaxWindow \/ i >= Len(id_to_message) - 2}

\* the runs that are inspected: those of a narrow and of a babbling model
InitContext ==
  /\ InitAgent
  /\ llm \in {"narrow", "babbling"}
  /\ Untouched

NextContext ==
  \/ \E role \in Roles, content \in Contents : AddMessage(role, content)
  \/ \E tools \in ToolLists : AddFunctions(tools)
  \/ \E task \in Tasks, n \in StepBudgets(llm) : Run(task, n)
  \/ \E response \in Generate(llm), behaviour \in BehavioursWith(llm) :
       Iteration(response, behaviour)
  \/ RaiseLimitsExceeded
  \/ \E window \in 0..MaxWindow, include_system \in BOOLEAN :
       GetContext(window, include_system)
  \/ \E message_id \in InspectedIds : MessageIdToContext(message_id)

SpecContext == InitContext /\ [][NextContext]_vars

\* ------------------------------------------------------------------------
\* A caller whose registrations are logged
\* ------------------------------------------------------------------------
RegistryToolLists ==
  LET tools == Candidates \cup {UserBash}
  IN {<<>>} \cup {<<t>> : t \in tools} \cup {<<t, u>> : t \in tools, u \in tools}

\* the tools add_functions registers before it raises, if it does
RECURSIVE CallablePrefix(_)
CallablePrefix(tools) ==
  IF tools = <<>> \/ ~Callable(Head(tools))
  THEN <<>>
  ELSE <<Head(tools)>> \o CallablePrefix(Tail(tools))

\* a caller's add_functions(tools), logged
RegisterTools(tools) ==
  /\ pc = "idle"
  /\ Len(registered) + Len(tools) <= MaxRegistered
  /\ function_map' = add_functions(function_map, tools)
  /\ registered' = registered \o CallablePrefix(tools)
  /\ UNCHANGED <<id_to_message, next_message_id, pc, llm, max_steps_arg, max_steps,
                 step, finish_attempts, iteration, llm_calls, tool_calls, store_ops,
                 len_at_run, returned, parser_vars, llm_messages, inspect_vars>>

InitRegistry ==
  /\ InitAgent
  /\ llm = "terse"
  /\ Untouched

NextRegistry ==
  \/ \E tools \in RegistryToolLists : RegisterTools(tools)
  \/ \E task \in Tasks, n \in StepBudgets(llm) : Run(task, n)
  \/ \E response \in Generate(llm), behaviour \in BehavioursWith(llm) :
       Iteration(response, behaviour)
  \/ RaiseLimitsExceeded

SpecRegistry == InitRegistry /\ [][NextRegistry]_vars

\* ------------------------------------------------------------------------
\* Vocabulary of the properties
\* ------------------------------------------------------------------------
\* run has been called with a valid budget
Running == pc \in {"iterating", "returned", "limits_exceeded"}

\* an iteration of the loop has completed
Iterated == Running /\ iteration.outcome # "none"

\* the messages the most recent iteration appended
Appended == SubSeq(id_to_message, iteration.first, Len(id_to_message))

AppendedRoles == [i \in 1..Len(Appended) |-> Appended[i].role]

\* the most recent response parsed to a call of the tool registered as finish
FinishCalled ==
  /\ Iterated
  /\ iteration.parsed.error = ""
  /\ iteration.parsed.name = FinishMethod.name
  /\ iteration.invoked

\* every response the model gave during the run was unparsable
AllUnparsable ==
  \A i \in (len_at_run + 1)..Len(id_to_message) :
    id_to_message[i].role = "assistant" => Parse(id_to_message[i].content).error # ""

\* the messages the run appended so far
AppendedByRun == SubSeq(id_to_message, len_at_run + 1, Len(id_to_message))

Min(a, b) == IF a < b THEN a ELSE b

\* the value contains one of the four grammar delimiters
HasDelimiter(value) ==
  \E i \in 1..Len(value) : value[i] \in {BEGIN_CALL, END_CALL, ARG_SEP, VALUE_SEP}

\* some value of the dict contains a grammar delimiter
SomeValueHasDelimiter(arguments) ==
  \E i \in 1..Len(arguments) : HasDelimiter(arguments[i][2])

\* C1: when the most recent response parsed to a call of the registered
\* finish tool and the call yielded a non-empty result, run has returned
\* exactly that result (and, having returned, takes no further step).
C1_FinishReturnsResult ==
  (FinishCalled /\ ~iteration.raised /\ Strip(iteration.tool_result) # <<>>)
    => (pc = "returned" /\ returned = iteration.tool_result)

\* C2 as stated: a run whose model only ever returned unparsable text ends
\* in LimitsExceeded after exactly max_steps (the caller's argument) model
\* calls.
C2_ExactlyMaxStepsArg ==
  (pc = "limits_exceeded" /\ AllUnparsable)
    => (llm_calls = max_steps_arg /\ step = max_steps_arg)

\* C2 amended: a run whose model only ever returned unparsable text ends in
\* LimitsExceeded after exactly min(max_steps, 100) iterations: that many
\* model calls, each followed by one assistant message and one corrective
\* system message, and no tool invocation.
C2_ExactlyClampedSteps ==
  (Running /\ AllUnparsable)
    => /\ pc # "returned"
       /\ tool_calls = <<>>
       /\ llm_calls = step
       /\ Len(AppendedByRun) = 2 * step
       /\ \A k \in 1..step :
            /\ AppendedByRun[2 * k - 1].role = "assistant"
            /\ AppendedByRun[2 * k].role = "system"
            /\ AppendedByRun[2 * k].content =
                 ParserErrorMessage(Parse(AppendedByRun[2 * k - 1].content).error)
       /\ step <= Min(max_steps_arg, MAX_STEPS_LIMIT)
       /\ pc = "limits_exceeded" => step = Min(max_steps_arg, MAX_STEPS_LIMIT)

C2_Witness ==
  /\ pc = "limits_exceeded"
  /\ AllUnparsable
  /\ max_steps_arg > MAX_STEPS_LIMIT
  /\ llm_calls = MAX_STEPS_LIMIT

\* C3: a tool invocation that raises never ends the run: the error text is
\* the recorded tool result, a corrective system message is appended, and the
\* loop goes on (to the next iteration or to the exhausted budget); run
\* returns only after an invocation of finish that did not raise and gave a
\* non-empty result.
C3_FailedInvocationContinues ==
  /\ (Iterated /\ iteration.invoked /\ iteration.raised)
       => /\ pc \in {"iterating", "limits_exceeded"}
          /\ AppendedRoles = <<"assistant", "system", "tool">>
          /\ Appended[2].content =
               ToolFailedMessage(iteration.parsed.name, iteration.tool_result)
          /\ Appended[3].content =
               ToolMessageContent(iteration.parsed.name, iteration.arguments,
                                  iteration.tool_result)
          /\ tool_calls[Len(tool_calls)].raised
  /\ pc = "returned"
       => /\ FinishCalled
          /\ ~iteration.raised
          /\ Strip(iteration.tool_result) # <<>>
          /\ returned = iteration.tool_result

C3_Witness ==
  /\ FinishCalled
  /\ iteration.raised
  /\ pc = "iterating"
  /\ step = 1

\* C4: when finish was invoked and its result is empty or whitespace-only,
\* run has not returned, the tool message is recorded and the last message
\* appended is the corrective system message that demands a non-empty result.
C4_EmptyFinishCorrected ==
  (FinishCalled /\ ~iteration.raised /\ Strip(iteration.tool_result) = <<>>)
    => /\ pc \in {"iterating", "limits_exceeded"}
       /\ AppendedRoles = <<"assistant", "tool", "system">>
       /\ Appended[3].content = EmptyFinishMessage

\* the most recent iteration met a per-step error
PerStepError ==
  /\ Iterated
  /\ \/ iteration.parsed.error # ""
     \/ ~DictHas(function_map, iteration.parsed.name)
     \/ SomeValueHasDelimiter(iteration.arguments)
     \/ iteration.raised
     \/ FinishCalled /\ Strip(iteration.tool_result) = <<>>

\* C5: run ends by returning, by the ValueError at its start or by
\* LimitsExceeded, and every per-step error (parse failure, unknown tool,
\* polluted arguments, failed invocation, empty finish result) leaves a
\* corrective system message in the store and does not end the run.
C5_ErrorsAbsorbed ==
  /\ pc \in {"idle", "iterating", "returned", "value_error", "limits_exceeded"}
  /\ PerStepError
       => /\ pc \in {"iterating", "limits_exceeded"}
          /\ \E i \in 1..Len(Appended) : Appended[i].role = "system"

\* C6: the model calls made never exceed min(max_steps, 100); every
\* iteration, whatever its outcome, makes one model call (one assistant
\* message) and uses one unit of the budget.
C6_ModelCallsBounded ==
  Running
    => /\ llm_calls <= Min(max_steps_arg, MAX_STEPS_LIMIT)
       /\ llm_calls = step
       /\ Cardinality({i \in 1..Len(AppendedByRun) :
                         AppendedByRun[i].role = "assistant"}) = llm_calls

C6_Witness ==
  /\ pc = "limits_exceeded"
  /\ max_steps_arg = MAX_STEPS_LIMIT + 1
  /\ llm_calls = MAX_STEPS_LIMIT

\* the message at position i has unique_id i and the next id is the length
IdsArePositions ==
  /\ \A i \in 1..Len(id_to_message) : id_to_message[i].unique_id = i - 1
  /\ next_message_id = Len(id_to_message)

\* a step neither shrinks the store nor changes the id of a message in it
IdsKept ==
  /\ Len(id_to_message') >= Len(id_to_message)
  /\ \A i \in 1..Len(id_to_message) :
       id_to_message'[i].unique_id = id_to_message[i].unique_id

\* C7: after any add_message and set_message_content operations, run's
\* included, the message at position i has unique_id i (ids start at 0,
\* increase in creation order, are never reused), no step changes the id of
\* a message, and the store never shrinks.
C7_IdsStable == [](IdsArePositions) /\ [][IdsKept]_vars

C7_Witness ==
  /\ store_ops >= 1
  /\ id_to_message[1].content = <<"x">>
  /\ Iterated
  /\ Len(id_to_message) >= 5

\* C8: no tool is invoked with an argument value that contains a grammar
\* delimiter: when a value still contains one after sanitization, the
\* iteration appends the assistant message and one corrective system message
\* only (no tool message) and the run goes on.
C8_NoPollutedInvocation ==
  /\ \A c \in 1..Len(tool_calls) : ~SomeValueHasDelimiter(tool_calls[c].arguments)
  /\ (Iterated /\ iteration.parsed.error = ""
        /\ SomeValueHasDelimiter(iteration.arguments))
       => /\ ~iteration.invoked
          /\ AppendedRoles = <<"assistant", "system">>
          /\ pc \in {"iterating", "limits_exceeded"}

C8_Witness ==
  /\ Iterated
  /\ iteration.outcome = "polluted"
  /\ DictHas(function_map, iteration.parsed.name)

\* C9: for every parsed argument value that contains ----END_FUNCTION_CALL----
\* the sanitized value, which is what a tool invoked in that iteration
\* receives, is the text before the first occurrence of the marker, trimmed.
C9_TruncatedAtEndMarker ==
  (Iterated /\ iteration.parsed.error = "")
    => /\ Len(iteration.arguments) = Len(iteration.parsed.arguments)
       /\ \A i \in 1..Len(iteration.parsed.arguments) :
            LET value == iteration.parsed.arguments[i][2]
            IN Contains(value, END_CALL)
                 => /\ iteration.arguments[i][1] = iteration.parsed.arguments[i][1]
                    /\ iteration.arguments[i][2] =
                         Strip(SubSeq(value, 1, Find(value, END_CALL) - 1))
       /\ iteration.invoked
            => tool_calls[Len(tool_calls)].arguments = iteration.arguments

C9_Witness ==
  /\ Iterated
  /\ iteration.invoked
  /\ \E i \in 1..Len(iteration.parsed.arguments) :
       /\ Contains(iteration.parsed.arguments[i][2], END_CALL)
       /\ iteration.arguments[i][2] = <<"done">>

\* ------------------------------------------------------------------------
\* The parser on its own: parse called directly on a text
\* ------------------------------------------------------------------------
Alphabet == {BEGIN_CALL, END_CALL, ARG_SEP, VALUE_SEP, NL, "a"}

\* every text of at most MaxTextLen tokens
ShortTexts == UNION {[1..n -> Alphabet] : n \in 0..MaxTextLen}

\* well-formed calls: names and values free of delimiters and trimmed
SampleCalls ==
  { [name |-> <<"f">>, arguments |-> <<>>],
    [name |-> <<"g">>, arguments |-> <<>>],
    [name |-> <<"f">>, arguments |-> <<<<<<"a">>, <<"1">>>>>>],
    [name |-> <<"f">>, arguments |-> <<<<<<"a">>, <<>>>>>>],
    [name |-> <<"g">>, arguments |-> <<<<<<"a">>, <<"2">>>>, <<<<"b">>, <<"x", NL, "y">>>>>>] }

Leads == {<<>>, <<"t">>, <<NL, "t", NL>>}
Gaps == {<<>>, <<NL>>, <<NL, "u", NL>>}
Trails == {<<>>, <<NL>>}

\* lead, block A, gap, block B, trail
TwoBlocks(lead, A, gap, B, trail) ==
  lead \o CallBlock(A.name, A.arguments) \o gap
       \o CallBlock(B.name, B.arguments) \o trail

TwoBlockTexts ==
  {TwoBlocks(lead, A, gap, B, trail) :
     lead \in Leads, A \in SampleCalls, gap \in Gaps, B \in SampleCalls, trail \in Trails}

\* every call block of at most MaxBlockLen tokens between its markers
BlockAlphabet == {ARG_SEP, VALUE_SEP, WS, "a"}
BlockTexts ==
  {<<BEGIN_CALL>> \o body \o <<END_CALL>> :
     body \in UNION {[1..n -> BlockAlphabet] : n \in 0..MaxBlockLen}}

ParserTexts == ShortTexts \cup TwoBlockTexts \cup BlockTexts

\* calls to render into the grammar: delimiter-free names and values, with
\* and without surrounding whitespace, argument names repeated or not
CallNames == {<<"f">>, <<WS, "f">>, <<"f", NL>>, <<"f", WS, "g">>, <<WS>>}
ArgNames == {<<"a">>, <<"b">>, <<WS, "a">>, <<WS>>}
ArgValues == {<<>>, <<"1">>, <<WS, "1", NL>>, <<"x", NL, "y">>}
RenderedCalls ==
  {[name |-> name, arguments |-> arguments, thought |-> <<"t">>] :
     name \in CallNames,
     arguments \in UNION {[1..n -> ArgNames \X ArgValues] : n \in 0..MaxArgs}}

InitParser ==
  /\ InitAgent
  /\ llm = "scripted"
  /\ parse_result = NotParsed
  /\ direct_call = NoDirectCall
  /\ direct_result = <<>>
  /\ \/ /\ text \in ParserTexts
        /\ rendered = NoCall
     \/ /\ rendered \in RenderedCalls
        /\ text = CallText(rendered.thought, rendered.name, rendered.arguments)

\* parser.parse(text)
ParseCall ==
  /\ parse_result = NotParsed
  /\ parse_result' = Parse(text)
  /\ UNCHANGED <<id_to_message, next_message_id, function_map, pc, llm, max_steps_arg,
                 max_steps, step, finish_attempts, iteration, llm_calls, tool_calls,
                 store_ops, len_at_run, returned, text, rendered, llm_messages,
                 inspect_vars, registered>>

NextParser == ParseCall

SpecParser == InitParser /\ [][NextParser]_vars

\* part occurs in whole as a run of consecutive tokens
OccursIn(part, whole) ==
  \E i \in 0..(Len(whole) - Len(part)) : SubSeq(whole, i + 1, i + Len(part)) = part

\* C10 as stated: for a text made of two complete call blocks A then B,
\* parse returns B's name and arguments, and thought is all the text before
\* B's BEGIN marker.
C10_ThoughtIsAllTextBeforeB ==
  parse_result # NotParsed
    => \A lead \in Leads, A \in SampleCalls, gap \in Gaps, B \in SampleCalls,
          trail \in Trails :
         text = TwoBlocks(lead, A, gap, B, trail)
           => /\ parse_result.error = ""
              /\ parse_result.name = B.name
              /\ parse_result.arguments = B.arguments
              /\ parse_result.thought = lead \o CallBlock(A.name, A.arguments) \o gap

\* C10 amended: for a text made of two complete call blocks A then B, parse
\* returns B's name and arguments, and thought is the text before B's BEGIN
\* marker with its leading and trailing whitespace removed, which contains
\* the literal text of block A.
C10_LastBlockWins ==
  parse_result # NotParsed
    => \A lead \in Leads, A \in SampleCalls, gap \in Gaps, B \in SampleCalls,
          trail \in Trails :
         text = TwoBlocks(lead, A, gap, B, trail)
           => /\ parse_result.error = ""
              /\ parse_result.name = B.name
              /\ parse_result.arguments = B.arguments
              /\ parse_result.thought =
                   Strip(lead \o CallBlock(A.name, A.arguments) \o gap)
              /\ OccursIn(CallBlock(A.name, A.arguments), parse_result.thought)

C10_Witness ==
  /\ parse_result # NotParsed
  /\ text = TwoBlocks(<<NL, "t", NL>>, [name |-> <<"f">>, arguments |-> <<<<<<"a">>, <<"1">>>>>>],
                      <<NL>>,
                      [name |-> <<"g">>,
                       arguments |-> <<<<<<"a">>, <<"2">>>>, <<<<"b">>, <<"x", NL, "y">>>>>>],
                      <<NL>>)
  /\ parse_result.name = <<"g">>

\* ------------------------------------------------------------------------
\* The failure cases of parse, read off the text
\* ------------------------------------------------------------------------
Positions(t, token) == {i \in 1..Len(t) : t[i] = token}

Largest(S) == CHOOSE m \in S : \A x \in S : x <= m

Blank(t) == \A i \in 1..Len(t) : t[i] \in Whitespace

EndMarkerAbsent(t) == Positions(t, END_CALL) = {}

BeginsBeforeLastEnd(t) ==
  {i \in Positions(t, BEGIN_CALL) : i < Largest(Positions(t, END_CALL))}

NoBeginBeforeEnd(t) == ~EndMarkerAbsent(t) /\ BeginsBeforeLastEnd(t) = {}

HasBlock(t) == ~EndMarkerAbsent(t) /\ BeginsBeforeLastEnd(t) # {}

\* the tokens strictly between the two markers
BlockOf(t) ==
  SubSeq(t, Largest(BeginsBeforeLastEnd(t)) + 1, Largest(Positions(t, END_CALL)) - 1)

\* the segments of a block: the runs of tokens between its ARG delimiters,
\* each with the position of the delimiter before it (0 for the first)
SegmentsOf(block) ==
  LET cuts == {0} \cup Positions(block, ARG_SEP) \cup {Len(block) + 1}
  IN {[after |-> a, tokens |-> SubSeq(block, a + 1, b - 1)] :
        <<a, b>> \in {c \in cuts \X cuts :
                       c[1] < c[2] /\ ~\E x \in cuts : c[1] < x /\ x < c[2]}}

BlockBlank(t) == HasBlock(t) /\ Blank(BlockOf(t))

NameSegmentEmpty(t) ==
  /\ HasBlock(t)
  /\ \E seg \in SegmentsOf(BlockOf(t)) : seg.after = 0 /\ Blank(seg.tokens)

SegmentLacksValue(t) ==
  /\ HasBlock(t)
  /\ \E seg \in SegmentsOf(BlockOf(t)) :
       seg.after > 0 /\ ~Blank(seg.tokens) /\ Positions(seg.tokens, VALUE_SEP) = {}

ArgumentNameEmpty(t) ==
  /\ HasBlock(t)
  /\ \E seg \in SegmentsOf(BlockOf(t)) :
       /\ seg.after > 0
       /\ \E v \in Positions(seg.tokens, VALUE_SEP) :
            \A i \in 1..(v - 1) : seg.tokens[i] \in Whitespace

\* C11: parse raises, and returns no call, whenever the end marker is
\* absent, no begin marker occurs before the last end marker, the call
\* block is empty or whitespace-only, the function name segment is empty, a
\* non-blank argument segment lacks the VALUE separator, or an argument
\* name is empty after trimming.
C11_MalformedTextsRejected ==
  parse_result # NotParsed
    => ((\/ EndMarkerAbsent(text)
         \/ NoBeginBeforeEnd(text)
         \/ BlockBlank(text)
         \/ NameSegmentEmpty(text)
         \/ SegmentLacksValue(text)
         \/ ArgumentNameEmpty(text))
        => /\ parse_result.error # ""
           /\ parse_result.name = <<>>
           /\ parse_result.arguments = <<>>)

C11_Witness ==
  /\ parse_result # NotParsed
  /\ SegmentLacksValue(text)
  /\ ~NameSegmentEmpty(text)
  /\ parse_result.error = "Argument missing VALUE separator."

\* ------------------------------------------------------------------------
\* The round trip through the grammar
\* ------------------------------------------------------------------------
\* the value the last pair named k gives to k
LastValue(pairs, k) == pairs[Largest({i \in 1..Len(pairs) : pairs[i][1] = k})][2]

NamesOf(pairs) == {pairs[i][1] : i \in 1..Len(pairs)}

Trimmed(t) == t # <<>> /\ t[1] \notin Whitespace /\ t[Len(t)] \notin Whitespace

\* parse returned the rendered call: its name, and for each argument name
\* the trimmed last value given to it
ParsedBack ==
  /\ parse_result.error = ""
  /\ parse_result.name = rendered.name
  /\ DictKeys(parse_result.arguments) = NamesOf(rendered.arguments)
  /\ Len(parse_result.arguments) = Cardinality(NamesOf(rendered.arguments))
  /\ \A k \in NamesOf(rendered.arguments) :
       DictGet(parse_result.arguments, k) = Strip(LastValue(rendered.arguments, k))

\* C12 as stated: a rendered call whose names are non-empty and whose names
\* and values are free of delimiters parses back to the same name and the
\* same argument map, each value trimmed, the last value of a repeated
\* name winning.
C12_RoundTrip ==
  (parse_result # NotParsed /\ rendered # NoCall)
    => ((/\ rendered.name # <<>>
         /\ \A k \in NamesOf(rendered.arguments) : k # <<>>
         /\ ~HasDelimiter(rendered.name)
         /\ \A i \in 1..Len(rendered.arguments) :
              /\ ~HasDelimiter(rendered.arguments[i][1])
              /\ ~HasDelimiter(rendered.arguments[i][2]))
        => ParsedBack)

\* C12 amended: a rendered call whose names are non-empty and have no
\* leading or trailing whitespace, and whose names and values are free of
\* delimiters, parses back to the same name and the same argument map, each
\* value trimmed, the last value of a repeated name winning.
C12_RoundTripOfTrimmedNames ==
  (parse_result # NotParsed /\ rendered # NoCall)
    => ((/\ Trimmed(rendered.name)
         /\ \A k \in NamesOf(rendered.arguments) : Trimmed(k)
         /\ ~HasDelimiter(rendered.name)
         /\ \A i \in 1..Len(rendered.arguments) :
              /\ ~HasDelimiter(rendered.arguments[i][1])
              /\ ~HasDelimiter(rendered.arguments[i][2]))
        => ParsedBack)

C12_Witness ==
  /\ parse_result # NotParsed
  /\ rendered # NoCall
  /\ rendered.name = <<"f", WS, "g">>
  /\ rendered.arguments = <<<<<<"a">>, <<WS, "1", NL>>>>, <<<<"a">>, <<"x", NL, "y">>>>>>
  /\ parse_result.arguments = <<<<<<"a">>, <<"x", NL, "y">>>>>>

\* ------------------------------------------------------------------------
\* The context handed to the model
\* ------------------------------------------------------------------------
\* the members of a finite set of integers, ascending
RECURSIVE Ascending(_)
Ascending(S) ==
  IF S = {}
  THEN <<>>
  ELSE LET least == CHOOSE m \in S : \A x \in S : m <= x
       IN <<least>> \o Ascending(S \ {least})

Max(x, y) == IF x >= y THEN x ELSE y

\* the positions C13 names, for a store of n messages and a window w
PositionsInContext(n, w, include_system) ==
  ({0, 1} \cup {i \in 0..(n - 1) : Max(2, n - w) <= i})
    \ (IF include_system THEN {} ELSE {0})

\* message 1 as run's requests show it
TaskEntry == Header(id_to_message[2]) \o id_to_message[2].content \o <<NL>>

\* C13: get_context renders exactly the messages at the positions {0, 1}
\* united with {i : max(2, n - w) <= i < n}, each once and in ascending
\* order, without position 0 when include_system is false; and every
\* request of run shows the user message of position 1 in its conversation
\* context.
C13_ContextPositions ==
  /\ direct_call.method = "get_context"
       => LET ids == Ascending(PositionsInContext(Len(id_to_message), direct_call.window,
                                                  direct_call.include_system))
          IN direct_result =
               JoinLines([k \in 1..Len(ids) |->
                            message_id_to_context(id_to_message, function_map, ids[k])])
  /\ llm_messages # <<>>
       => /\ id_to_message[2].role = "user"
          /\ SubSeq(llm_messages[2].content, 1, Len(TaskEntry)) = TaskEntry

\* a direct call on a store longer than the window plus two, and a request
\* built from a store longer than the default window plus two
C13_Witness ==
  /\ direct_call.method = "get_context"
  /\ direct_call.window > 0
  /\ Len(id_to_message) > direct_call.window + 2
  /\ ~direct_call.include_system
  /\ Len(id_to_message) > DEFAULT_WINDOW + 4
  /\ llm_messages # <<>>

\* C15: a tool message that is not the last of the store and is longer
\* than 2048 is rendered as its first 1024 characters, the elision marker
\* and its last 512 characters, the marker reporting the length less 1024
\* less 512; a tool message of at most 2048 characters is rendered
\* unchanged.
C15_OlderToolMessageElided ==
  direct_call.method = "message_id_to_context"
    => LET message == id_to_message[direct_call.message_id + 1]
           content == message.content
           n == Len(content)
       IN message.role = "tool"
            => /\ (direct_call.message_id # Len(id_to_message) - 1 /\ n > 2048)
                    => direct_result =
                         Header(message) \o SubSeq(content, 1, 1024)
                           \o <<NL, "... [TRUNCATED ", ToString(n - 1024 - 512),
                                " CHARS] ...", NL>>
                           \o SubSeq(content, n - 511, n) \o <<NL>>
               /\ n <= 2048 => direct_result = Header(message) \o content \o <<NL>>

\* an older tool message longer than the threshold has been rendered
C15_Witness ==
  /\ direct_call.method = "message_id_to_context"
  /\ id_to_message[direct_call.message_id + 1].role = "tool"
  /\ direct_call.message_id # Len(id_to_message) - 1
  /\ Len(id_to_message[direct_call.message_id + 1].content) > 2048
  /\ Len(direct_result) < Len(id_to_message[direct_call.message_id + 1].content)

\* the store as it was when the most recent request was built
RequestStore == SubSeq(id_to_message, 1, iteration.first - 1)

ToolPositions(messages) == {i \in 1..Len(messages) : messages[i].role = "tool"}

\* C14: in every request built by run, the most recently appended tool
\* message, when the window shows it, is shown with its whole content,
\* whatever was appended after it.
C14_LatestToolResultVerbatim ==
  (llm_messages # <<>> /\ ToolPositions(RequestStore) # {})
    => LET latest == Largest(ToolPositions(RequestStore))
           shown == ContextIndices(Len(RequestStore), DEFAULT_WINDOW, FALSE)
       IN (\E k \in 1..Len(shown) : shown[k] = latest - 1)
            => OccursIn(Header(RequestStore[latest]) \o RequestStore[latest].content
                          \o <<NL>>,
                        llm_messages[2].content)

\* the listing of the tools and the template, as rendered after a content
ToolsAndTemplate ==
  <<NL, "--- AVAILABLE TOOLS ---", NL>> \o ToolDescriptions(function_map)
    \o <<NL, NL, "--- RESPONSE FORMAT ---", NL, "response_format", NL>>

\* C18: the listing of the tools and the template follow the content of
\* message 0; every message that run appended and that is not a tool
\* message, the corrective system messages among them, is rendered as its
\* header and its content only.
C18_ListingOnPromptOnly ==
  direct_call.method = "message_id_to_context"
    => LET message == id_to_message[direct_call.message_id + 1]
       IN /\ direct_call.message_id = SYSTEM_MESSAGE_ID
               => direct_result = Header(message) \o message.content \o ToolsAndTemplate
          /\ (Running /\ direct_call.message_id >= len_at_run /\ message.role # "tool")
               => direct_result = Header(message) \o message.content \o <<NL>>

\* ------------------------------------------------------------------------
\* The start and the end of run
\* ------------------------------------------------------------------------
\* C16: run called with max_steps <= 0 raises at once: the step that takes
\* the call leaves the store as it was, no model call has been made and no
\* request built, and nothing changes afterwards.
C16_InvalidBudgetRejected ==
  /\ [][(pc = "idle" /\ pc' # "idle" /\ max_steps_arg' <= 0)
          => /\ pc' = "value_error"
             /\ id_to_message' = id_to_message
             /\ next_message_id' = next_message_id
             /\ llm_calls' = 0
             /\ llm_messages' = <<>>]_vars
  /\ [][pc = "value_error"
          => UNCHANGED <<pc, id_to_message, next_message_id, llm_calls, llm_messages>>]_vars

C16_Witness ==
  /\ pc = "value_error"
  /\ max_steps_arg <= 0
  /\ llm_calls = 0
  /\ id_to_message[2].content = <<>>

\* an iteration before the most recent one invoked the built-in finish
EarlierFinishAttempt ==
  \E i \in 1..(Len(tool_calls) - 1) : tool_calls[i].tool = FinishMethod

\* the most recent iteration invoked the built-in finish, which returned a
\* non-empty result
FinishSucceeded ==
  /\ FinishCalled
  /\ tool_calls[Len(tool_calls)].tool = FinishMethod
  /\ ~iteration.raised
  /\ Strip(iteration.tool_result) # <<>>

\* C17: when finish succeeds with a non-empty result after an earlier
\* finish attempt of the same run, the iteration appends the warning system
\* message after the tool message and run returns the result; on a first
\* attempt no warning is appended.
C17_DuplicateFinishWarned ==
  /\ (FinishSucceeded /\ EarlierFinishAttempt)
       => /\ pc = "returned"
          /\ returned = iteration.tool_result
          /\ AppendedRoles = <<"assistant", "tool", "system">>
          /\ Appended[3].content = DuplicateFinishMessage
  /\ (FinishSucceeded /\ ~EarlierFinishAttempt)
       => AppendedRoles = <<"assistant", "tool">>

\* the tool messages among the messages the run appended
ToolMessagesOfRun == SelectSeq(AppendedByRun, LAMBDA m : m.role = "tool")

\* what one iteration appends: two or three messages, the assistant message
\* with the raw response first, one tool message if a tool was invoked and
\* none otherwise
TwoOrThreeAppended ==
  Iterated
    => /\ Len(Appended) \in {2, 3}
       /\ Appended[1].role = "assistant"
       /\ Appended[1].content = iteration.response
       /\ Cardinality(ToolPositions(Appended)) = (IF iteration.invoked THEN 1 ELSE 0)

\* C20 as stated: every iteration appends two or three messages, the
\* assistant message first, a tool message exactly when a tool was invoked;
\* the store holds at most 2 + 3 * min(max_steps, 100) messages and the
\* run's tool messages are as many as its tool invocations.
C20_StoreBounded ==
  /\ TwoOrThreeAppended
  /\ Running
       => /\ Len(id_to_message) <= 2 + 3 * Min(max_steps_arg, MAX_STEPS_LIMIT)
          /\ Len(ToolMessagesOfRun) = Len(tool_calls)

\* C20 amended: every iteration appends two or three messages, the
\* assistant message first, a tool message exactly when a tool was invoked;
\* the store holds at most 3 * min(max_steps, 100) messages more than when
\* run was called, and the run's tool messages are as many as its tool
\* invocations.
C20_GrowthBounded ==
  /\ TwoOrThreeAppended
  /\ Running
       => /\ Len(id_to_message) <= len_at_run + 3 * step
          /\ step <= Min(max_steps_arg, MAX_STEPS_LIMIT)
          /\ Len(ToolMessagesOfRun) = Len(tool_calls)

\* a run that appended three messages at every one of its steps
C20_Witness ==
  /\ pc = "limits_exceeded"
  /\ step > 1
  /\ Len(id_to_message) = len_at_run + 3 * Min(max_steps_arg, MAX_STEPS_LIMIT)
  /\ Len(tool_calls) = step

\* ------------------------------------------------------------------------
\* The registry
\* ------------------------------------------------------------------------
\* the places of the log where a callable named k was registered
LoggedAs(k) == {j \in 1..Len(registered) : registered[j].name = k}

\* when the name k was first registered: 0 for the finish of __init__
FirstRegistered(k) ==
  IF k = FinishMethod.name
  THEN 0
  ELSE CHOOSE j \in LoggedAs(k) : \A x \in LoggedAs(k) : j <= x

\* C19: after any sequence of add_functions calls the registry holds the
\* name finish, first in its order; every registered name is held once, at
\* the place of its first registration, and maps to the callable registered
\* last under it; and run has returned only from an iteration that resolved
\* and invoked the built-in finish.
C19_RegistryKeepsFinishFirst ==
  /\ DictHas(function_map, FinishMethod.name)
  /\ function_map[1][1] = FinishMethod.name
  /\ DictKeys(function_map) = {FinishMethod.name} \cup {registered[j].name : j \in 1..Len(registered)}
  /\ Cardinality(DictKeys(function_map)) = Len(function_map)
  /\ \A i \in 1..Len(function_map) :
       function_map[i][2] = IF LoggedAs(function_map[i][1]) = {}
                            THEN FinishMethod
                            ELSE registered[Largest(LoggedAs(function_map[i][1]))]
  /\ \A i, j \in 1..Len(function_map) :
       i < j => FirstRegistered(function_map[i][1]) < FirstRegistered(function_map[j][1])
  /\ pc = "returned"
       => (FinishCalled /\ tool_calls[Len(tool_calls)].tool = FinishMethod)

\* both names were registered again, and the run then invoked a tool
C19_Witness ==
  /\ registered = <<RunBashCmd, UserFinish, UserBash>>
  /\ function_map = <<<<UserFinish.name, UserFinish>>, <<UserBash.name, UserBash>>>>
  /\ Iterated
  /\ iteration.invoked

====
